---- MODULE Spec2Model ----
(***************************************************************************)
(* The Localized Narratives data loader (src/localized_narratives.py):     *)
(* the dataset registry, DataLoader.download_annotations, the generator    *)
(* DataLoader.load_annotations and LocalizedNarrative.voice_recording_url. *)
(*                                                                         *)
(* One step of the model is one call made by the caller of the library:    *)
(* a whole download_annotations call, the creation of a load_annotations   *)
(* generator, one next() on a generator (from its resumption to its next   *)
(* yield, return or raise), one evaluation of voice_recording_url.         *)
(* The program is single-threaded, so calls do not overlap; generators     *)
(* stay suspended between two next() calls and other calls may happen      *)
(* in between.                                                             *)
(***************************************************************************)
EXTENDS Integers, Sequences, FiniteSets, TLC

VARIABLES
  dirExists,   \* whether local_root_dir exists on disk
  present,     \* the files of local_root_dir
  content,     \* file name -> its lines (<<>> for a file that is absent)
  handles,     \* every file object open() has returned, in order of creation
  current,     \* DataLoader._current_open_file: an index of handles, 0 for None
  gen,         \* the load_annotations generators the caller holds
  call,        \* the most recent call of the caller and how it ended
  io,          \* the I/O operations of the most recent call, in order
  rec,         \* the LocalizedNarrative whose URL is resolved
  url          \* the outcome of voice_recording_url on rec

vars == <<dirExists, present, content, handles, current, gen, call, io, rec, url>>

loaderVars == <<dirExists, present, content, handles, current, gen, call, io>>

urlVars == <<rec, url>>

(***************************************************************************)
(* Bounds of the model.                                                    *)
(***************************************************************************)
\* shards kept of the sharded key (coco_train has 4, open_images_train 10)
NumShards == 2

\* lines of a file initially on disk
MaxLines == 2

\* largest max_num_annotations the caller passes explicitly
MaxCount == 2

\* the default of max_num_annotations, int(1e30): beyond every count reached
DefaultMax == 1000000000

(***************************************************************************)
(* The registry.                                                           *)
(***************************************************************************)
CocoTrainShards ==
  << "coco_train_localized_narratives-00000-of-00004.jsonl",
     "coco_train_localized_narratives-00001-of-00004.jsonl",
     "coco_train_localized_narratives-00002-of-00004.jsonl",
     "coco_train_localized_narratives-00003-of-00004.jsonl" >>

\* _ANNOTATION_FILES, restricted to one sharded and one single-file key
ANNOTATION_FILES ==
  [k \in {"coco_train", "coco_val"} |->
     IF k = "coco_train"
       THEN SubSeq(CocoTrainShards, 1, NumShards)
       ELSE << "coco_val_localized_narratives.jsonl" >>]

KnownKeys == DOMAIN ANNOTATION_FILES

\* what a caller may pass as dataset_and_split
Keys == KnownKeys \cup {"imagenet_train"}

Range(s) == {s[i] : i \in 1..Len(s)}

Files == UNION {Range(ANNOTATION_FILES[k]) : k \in KnownKeys}

\* _expected_files: the file list, or the ValueError of an unknown key
expected_files(key) ==
  IF key \in DOMAIN ANNOTATION_FILES
    THEN [ok |-> TRUE, files |-> ANNOTATION_FILES[key]]
    ELSE [ok |-> FALSE, files |-> <<>>]

(***************************************************************************)
(* Lines and records.                                                      *)
(***************************************************************************)
\* the fields of LocalizedNarrative
Fields ==
  {"dataset_id", "image_id", "annotator_id", "caption", "timed_caption",
   "traces", "voice_recording"}

\* A line of a .jsonl file: whether it is well-formed JSON, the keys of its
\* object, and what identifies it (the file it is in and its line number).
GoodLine(f, i) == [json |-> TRUE, keys |-> Fields, id |-> <<f, i>>]

LineOfKind(kind, f, i) ==
  CASE kind = "good" -> GoodLine(f, i)
    [] kind = "notjson" -> [json |-> FALSE, keys |-> {}, id |-> <<f, i>>]
    [] kind = "missing" ->
         [json |-> TRUE, keys |-> Fields \ {"traces"}, id |-> <<f, i>>]
    [] kind = "extra" ->
         [json |-> TRUE, keys |-> Fields \cup {"comment"}, id |-> <<f, i>>]

BadKinds == {"notjson", "missing", "extra"}

\* a decoder that ignores the keys it does not know
decode_lenient(line) ==
  IF ~line.json
    THEN [ok |-> FALSE, err |-> "JSONDecodeError", record |-> <<>>]
  ELSE IF ~(Fields \subseteq line.keys)
    THEN [ok |-> FALSE, err |-> "TypeError", record |-> <<>>]
  ELSE [ok |-> TRUE, err |-> "", record |-> line.id]

\* yield LocalizedNarrative(**json.loads(line)): the record, or the error
\* json.loads or the NamedTuple constructor raises
decode(line) ==
  IF ~line.json
    THEN [ok |-> FALSE, err |-> "JSONDecodeError", record |-> <<>>]
  ELSE IF line.keys # Fields
    THEN [ok |-> FALSE, err |-> "TypeError", record |-> <<>>]
  ELSE [ok |-> TRUE, err |-> "", record |-> line.id]

\* what wget.download writes for a file: the server's copy, one record here
RemoteContent(f) == << GoodLine(f, 1) >>

(***************************************************************************)
(* DataLoader.download_annotations.                                        *)
(***************************************************************************)
LocalRootDir == "local_root_dir"

IsDownload(event) == event[1] = "download"

\* call.prev: for a download_annotations call, the call made just before it
\* and the number of files that one downloaded
NoPrev == [op |-> "none", key |-> "", result |-> "", downloads |-> 0]

NoCall == [op |-> "none", key |-> "", result |-> "", prev |-> NoPrev]

\* _download_one_file without its test of os.path.exists
download_one_file_unconditional(d, f, failing) ==
  IF f \in failing
    THEN [d EXCEPT !.io = Append(@, <<"download failed", f>>),
                   !.result = "DownloadError"]
    ELSE [d EXCEPT !.io = Append(@, <<"download", f>>),
                   !.present = @ \cup {f},
                   !.content[f] = RemoteContent(f)]

\* _download_one_file on the call's state d = [present, content, io, result];
\* failing: the files whose download the network fails
download_one_file(d, f, failing) ==
  LET checked == [d EXCEPT !.io = Append(@, <<"exists", f>>)]
  IN  IF f \notin d.present
        THEN IF f \in failing
               THEN [checked EXCEPT !.io = Append(@, <<"download failed", f>>),
                                    !.result = "DownloadError"]
               ELSE [checked EXCEPT !.io = Append(@, <<"download", f>>),
                                    !.present = @ \cup {f},
                                    !.content[f] = RemoteContent(f)]
        ELSE checked

RECURSIVE download_files_keep_going(_, _, _, _)
\* the loop with the exception caught: it goes on to the files that follow
download_files_keep_going(d, files, i, failing) ==
  IF i > Len(files)
    THEN d
    ELSE download_files_keep_going(
           [download_one_file(d, files[i], failing) EXCEPT
              !.result = IF d.result # "ok" THEN d.result ELSE @],
           files, i + 1, failing)

RECURSIVE download_files(_, _, _, _)
\* the for loop of download_annotations from the i-th file on: an exception
\* of _download_one_file is not caught and ends the loop
download_files(d, files, i, failing) ==
  IF i > Len(files) \/ d.result # "ok"
    THEN d
    ELSE download_files(download_one_file(d, files[i], failing),
                        files, i + 1, failing)

\* download_annotations(key): os.makedirs, then the loop over the files
download_annotations(key, failing) ==
  LET made == [present |-> present, content |-> content,
               io |-> << <<"makedirs", LocalRootDir>> >>, result |-> "ok"]
      e == expected_files(key)
  IN  IF e.ok
        THEN download_files(made, e.files, 1, failing)
        ELSE [made EXCEPT !.result = "ValueError: unknown dataset_and_split"]

\* The caller fetches before it loads, as demo.py does.
DownloadAnnotations(key, failing) ==
  LET d == download_annotations(key, failing)
  IN  /\ \A g \in DOMAIN gen : gen[g].status = "none"
      /\ dirExists' = TRUE
      /\ present' = d.present
      /\ content' = d.content
      /\ io' = d.io
      /\ call' = [op |-> "download_annotations", key |-> key,
                  result |-> d.result,
                  prev |-> [op |-> call.op, key |-> call.key,
                            result |-> call.result,
                            downloads |-> Len(SelectSeq(io, IsDownload))]]
      /\ UNCHANGED <<handles, current, gen, urlVars>>

(***************************************************************************)
(* DataLoader.load_annotations, a generator.  Between two next() calls it  *)
(* is suspended at its yield; one next() runs the steps below from "start" *)
(* (first call) or "resume" (after a yield) to the following yield, return *)
(* or raise.  m = [pc, g, handles, current, io]: the generator's position  *)
(* and locals (g), the file objects, _current_open_file, the call's I/O.   *)
(***************************************************************************)
NoGen ==
  [status |-> "none", key |-> "", max |-> 0, num_loaded |-> 0, fidx |-> 0,
   h |-> 0, emitted |-> <<>>, err |-> ""]

raise(m, err) == [m EXCEPT !.pc = "raise", !.g.err = err]

\* self._current_open_file.close(): closes the file object the loader's
\* field refers to now (closing a closed file does nothing)
close_current(m, self) ==
  LET hd == m.handles[m.current]
  IN  [m EXCEPT !.handles[m.current].closed = TRUE,
                !.handles[m.current].closedBy =
                    IF hd.closed THEN hd.closedBy ELSE self,
                !.io = Append(@, <<"close", hd.file>>)]

\* the first next(): num_loaded = 0, and _find_files starts _expected_files
start(m) ==
  IF expected_files(m.g.key).ok
    THEN [m EXCEPT !.pc = "find", !.g.num_loaded = 0, !.g.fidx = 0]
    ELSE raise(m, "ValueError: unknown dataset_and_split")

\* _find_files ending at the first expected file that is missing
find_files_until_missing(m) ==
  LET files == ANNOTATION_FILES[m.g.key]
      i == m.g.fidx + 1
  IN  IF i > Len(files)
        THEN [m EXCEPT !.pc = "return"]
        ELSE LET checked == [m EXCEPT !.io = Append(@, <<"exists", files[i]>>),
                                      !.g.fidx = i]
             IN  IF files[i] \in present
                   THEN [checked EXCEPT !.pc = "open"]
                   ELSE [checked EXCEPT !.pc = "return"]

\* _find_files moves to the next expected file: yields it when it exists
find_files(m) ==
  LET files == ANNOTATION_FILES[m.g.key]
      i == m.g.fidx + 1
  IN  IF i > Len(files)
        THEN [m EXCEPT !.pc = "return"]
        ELSE LET checked == [m EXCEPT !.io = Append(@, <<"exists", files[i]>>),
                                      !.g.fidx = i]
             IN  IF files[i] \in present
                   THEN [checked EXCEPT !.pc = "open"]
                   ELSE checked

\* self._current_open_file = open(local_file, 'rb'), and the inner for takes
\* its iterator from that file object
open_file(m, self) ==
  LET f == ANNOTATION_FILES[m.g.key][m.g.fidx]
      hs == Append(m.handles, [file |-> f, pos |-> 0, closed |-> FALSE,
                               owner |-> self, closedBy |-> 0])
  IN  [m EXCEPT !.handles = hs, !.current = Len(hs), !.g.h = Len(hs),
                !.io = Append(@, <<"open", f>>), !.pc = "line"]

\* the inner for asks its own file object for the next line, and the body
\* decodes and yields it
next_line(m) ==
  LET hd == m.handles[m.g.h]
  IN  IF hd.closed
        THEN raise(m, "ValueError: I/O operation on closed file")
      ELSE IF hd.pos = Len(content[hd.file])
        THEN [m EXCEPT !.pc = "exhausted"]
      ELSE LET d == decode(content[hd.file][hd.pos + 1])
               got == [m EXCEPT !.handles[m.g.h].pos = @ + 1,
                                !.io = Append(@, <<"read", hd.file>>)]
           IN  IF d.ok
                 THEN [got EXCEPT !.g.emitted = Append(@, d.record),
                                  !.pc = "yield"]
                 ELSE raise(got, d.err)

\* after the inner for: self._current_open_file.close(), then the next file
exhausted(m, self) == [close_current(m, self) EXCEPT !.pc = "find"]

\* after the yield: num_loaded += 1 and the test against max_num_annotations
resume(m, self) ==
  LET counted == [m EXCEPT !.g.num_loaded = @ + 1]
  IN  IF counted.g.num_loaded = counted.g.max
        THEN [close_current(counted, self) EXCEPT !.pc = "return"]
        ELSE [counted EXCEPT !.pc = "line"]

step(m, self) ==
  CASE m.pc = "start" -> start(m)
    [] m.pc = "find" -> find_files(m)
    [] m.pc = "open" -> open_file(m, self)
    [] m.pc = "line" -> next_line(m)
    [] m.pc = "exhausted" -> exhausted(m, self)
    [] m.pc = "resume" -> resume(m, self)

RECURSIVE run(_, _)
run(m, self) ==
  IF m.pc \in {"yield", "return", "raise"} THEN m ELSE run(step(m, self), self)

\* load_annotations(key, max): calling a generator function runs none of it
LoadAnnotations(self, key, max) ==
  /\ gen[self].status = "none"
  /\ gen' = [gen EXCEPT ![self] =
               [NoGen EXCEPT !.status = "created", !.key = key, !.max = max]]
  /\ io' = <<>>
  /\ call' = [op |-> "load_annotations", key |-> key, result |-> "generator",
              prev |-> NoPrev]
  /\ UNCHANGED <<dirExists, present, content, handles, current, urlVars>>

\* next(generator); a generator that returned or raised is finished and
\* next() on it raises StopIteration without running any of its code
NextRecord(self) ==
  /\ gen[self].status # "none"
  /\ IF gen[self].status \in {"created", "suspended"}
       THEN LET m == run([pc |-> IF gen[self].status = "created"
                                    THEN "start" ELSE "resume",
                          g |-> gen[self], handles |-> handles,
                          current |-> current, io |-> <<>>], self)
            IN  /\ gen' = [gen EXCEPT ![self] =
                             [m.g EXCEPT !.status =
                                CASE m.pc = "yield" -> "suspended"
                                  [] m.pc = "return" -> "done"
                                  [] m.pc = "raise" -> "raised"]]
                /\ handles' = m.handles
                /\ current' = m.current
                /\ io' = m.io
                /\ call' = [op |-> "next", key |-> gen[self].key,
                            result |-> CASE m.pc = "yield" -> "record"
                                         [] m.pc = "return" -> "StopIteration"
                                         [] m.pc = "raise" -> m.g.err,
                            prev |-> NoPrev]
       ELSE /\ io' = <<>>
            /\ call' = [op |-> "next", key |-> gen[self].key,
                        result |-> "StopIteration", prev |-> NoPrev]
            /\ UNCHANGED <<gen, handles, current>>
  /\ UNCHANGED <<dirExists, present, content, urlVars>>

(***************************************************************************)
(* Initial states: any directory whose files hold at most MaxLines lines,  *)
(* at most one line of the directory being malformed.                      *)
(***************************************************************************)
Lengths(P) ==
  {n \in [Files -> 0..MaxLines] : \A f \in Files \ P : n[f] = 0}

AllGood(n) == [f \in Files |-> [i \in 1..n[f] |-> GoodLine(f, i)]]

WithBad(n, f, i, kind) ==
  [AllGood(n) EXCEPT ![f][i] = LineOfKind(kind, f, i)]

InitialContents(P) ==
  {AllGood(n) : n \in Lengths(P)}
    \cup UNION {UNION {{WithBad(n, f, i, k) : i \in 1..n[f], k \in BadKinds}
                         : f \in P} : n \in Lengths(P)}

NoRecord == [dataset_id |-> <<>>, annotator_id |-> 0, voice_recording |-> <<>>]

NoUrl == [status |-> "none", value |-> <<>>]

InitDisk ==
  /\ dirExists \in BOOLEAN
  /\ present \in SUBSET Files
  /\ ~dirExists => present = {}
  /\ content \in InitialContents(present)

InitLoader(n) ==
  /\ handles = <<>>
  /\ current = 0
  /\ gen = [g \in 1..n |-> NoGen]
  /\ call = NoCall
  /\ io = <<>>

Init ==
  /\ InitDisk
  /\ InitLoader(1)
  /\ rec = NoRecord
  /\ url = NoUrl

\* the network fails on no file of the call, or on one (the first failure
\* ends the call)
Failures(key) == {{}} \cup {{f} : f \in Range(expected_files(key).files)}

MaxNums == 0..MaxCount \cup {DefaultMax}

Next ==
  \/ \E key \in Keys :
       \E failing \in Failures(key) : DownloadAnnotations(key, failing)
  \/ \E self \in DOMAIN gen, key \in Keys, max \in MaxNums :
       LoadAnnotations(self, key, max)
  \/ \E self \in DOMAIN gen : NextRecord(self)

Spec == Init /\ [][Next]_vars

\* a caller holding two load_annotations generators of one DataLoader, over
\* a directory whose lines are all records
InitTwo ==
  /\ dirExists = TRUE
  /\ present \in SUBSET Files
  /\ content \in {AllGood(n) : n \in Lengths(present)}
  /\ InitLoader(2)
  /\ rec = NoRecord
  /\ url = NoUrl

SpecTwo == InitTwo /\ [][Next]_vars

(***************************************************************************)
(* LocalizedNarrative.voice_recording_url.  A string is the sequence of    *)
(* its characters.                                                         *)
(***************************************************************************)
Digits == <<"0", "1", "2", "3", "4", "5", "6", "7", "8", "9">>

Letters ==
  {"a", "b", "c", "d", "e", "f", "g", "h", "i", "j", "k", "l", "m", "n", "o",
   "p", "q", "r", "s", "t", "u", "v", "w", "x", "y", "z",
   "A", "B", "C", "D", "E", "F", "G", "H", "I", "J", "K", "L", "M", "N", "O",
   "P", "Q", "R", "S", "T", "U", "V", "W", "X", "Y", "Z"}

\* [0-9]
IsDigit(c) == c \in Range(Digits)

\* \w
IsWord(c) == c \in Letters \/ IsDigit(c) \/ c = "_"

\* _ROOT_URL and _RECORDINGS_ROOT_URL (the host and the folder kept whole)
ROOT_URL == << "https://storage.googleapis.com/localized-narratives" >>

RECORDINGS_ROOT_URL == ROOT_URL \o << "/", "voice-recordings" >>

\* sub in s
Contains(s, sub) ==
  \E i \in 1..(Len(s) - Len(sub) + 1) : SubSeq(s, i, i + Len(sub) - 1) = sub

RECURSIVE word_run_end(_, _)
\* where the longest run of \w characters starting at i ends (i - 1: none)
word_run_end(s, i) ==
  IF i <= Len(s) /\ IsWord(s[i]) THEN word_run_end(s, i + 1) ELSE i - 1

RECURSIVE digit_run_end(_, _)
\* where the longest run of [0-9] characters starting at i ends
digit_run_end(s, i) ==
  IF i <= Len(s) /\ IsDigit(s[i]) THEN digit_run_end(s, i + 1) ELSE i - 1

At(s, i) == IF i \in 1..Len(s) THEN s[i] ELSE ""

\* the matches at a of the pattern with \w+ for its last number
matches_at_word_tail(s, a) ==
  UNION {
    UNION {
      UNION {
        { <<e, x, d, t>> : t \in {t \in (d + 2)..word_run_end(s, d + 2) :
                                    At(s, t + 1) = "."} }
        : d \in {d \in (x + 2)..digit_run_end(s, x + 2) : At(s, d + 1) = "_"} }
      : x \in {x \in (e + 2)..word_run_end(s, e + 2) : At(s, x + 1) = "_"} }
    : e \in {e \in a..word_run_end(s, a) : At(s, e + 1) = "/"} }

\* The matches of (\w+)/\w+_([0-9]+)_[0-9]+\. that start at a, each as
\* <<e, x, d, t>>: the ends of (\w+), \w+, ([0-9]+) and [0-9]+.
matches_at(s, a) ==
  UNION {
    UNION {
      UNION {
        { <<e, x, d, t>> : t \in {t \in (d + 2)..digit_run_end(s, d + 2) :
                                    At(s, t + 1) = "."} }
        : d \in {d \in (x + 2)..digit_run_end(s, x + 2) : At(s, d + 1) = "_"} }
      : x \in {x \in (e + 2)..word_run_end(s, e + 2) : At(s, x + 1) = "_"} }
    : e \in {e \in a..word_run_end(s, a) : At(s, e + 1) = "/"} }

\* m comes before n in the order a backtracking matcher tries greedy
\* repetitions: the longer repetition first, from left to right
Preferred(m, n) ==
  \E k \in 1..4 : m[k] > n[k] /\ \A j \in 1..(k - 1) : m[j] = n[j]

\* re.search(r'(\w+)/\w+_([0-9]+)_[0-9]+\.', s): the first match of the
\* leftmost start that has one, and its two groups; or None
re_search(s) ==
  LET starts == {a \in 1..Len(s) : matches_at(s, a) # {}}
  IN  IF starts = {}
        THEN [found |-> FALSE, groups |-> <<>>]
        ELSE LET a == CHOOSE a \in starts : \A b \in starts : a <= b
                 ms == matches_at(s, a)
                 m == CHOOSE m \in ms : \A n \in ms \ {m} : Preferred(m, n)
             IN  [found |-> TRUE,
                  groups |-> << SubSeq(s, a, m[1]),
                                SubSeq(s, m[2] + 2, m[3]) >>]

ZfillWidth == 16

\* padding on the right instead
zfill_right(s, width) ==
  IF Len(s) >= width THEN s ELSE s \o [i \in 1..(width - Len(s)) |-> "0"]

\* str.zfill(width) of a string of digits
zfill(s, width) ==
  IF Len(s) >= width THEN s ELSE [i \in 1..(width - Len(s)) |-> "0"] \o s

RECURSIVE int_to_str(_)
\* the decimal digits an f-string gives a non-negative int
int_to_str(n) ==
  IF n < 10 THEN << Digits[n + 1] >>
  ELSE int_to_str(n \div 10) \o << Digits[(n % 10) + 1] >>

Flic == <<"F", "l", "i", "c">>

ADE == <<"A", "D", "E">>

\* the property: the URL, or the AttributeError of None.groups()
voice_recording_url(r) ==
  IF Contains(r.dataset_id, Flic) \/ Contains(r.dataset_id, ADE)
    THEN LET m == re_search(r.voice_recording)
         IN  IF ~m.found
               THEN [status |-> "error", value |-> <<>>]
               ELSE LET split_id == m.groups[1]
                        image_id == zfill(m.groups[2], ZfillWidth)
                    IN  [status |-> "ok",
                         value |-> RECORDINGS_ROOT_URL \o <<"/">>
                                     \o split_id \o <<"/">>
                                     \o split_id \o <<"_">> \o image_id
                                     \o <<"_">> \o int_to_str(r.annotator_id)
                                     \o <<".", "o", "g", "g">>]
    ELSE [status |-> "ok",
          value |-> RECORDINGS_ROOT_URL \o <<"/">> \o r.voice_recording]

ResolveUrl ==
  /\ url.status = "none"
  /\ url' = voice_recording_url(rec)
  /\ UNCHANGED <<loaderVars, rec>>

(***************************************************************************)
(* The records whose URL is resolved: a stored path is a free prefix of at *)
(* most MaxPrefix characters, then split, '/', text, '_', image id, '_',   *)
(* number, '.', extension, each taken among a well-formed and some         *)
(* ill-formed values; or the path of the documentation's example.          *)
(***************************************************************************)
MaxPrefix == 1

Alphabet == {"v", "7", "_", "/", "."}

RECURSIVE StringsUpTo(_)
StringsUpTo(n) ==
  IF n = 0 THEN {<<>>}
  ELSE LET shorter == StringsUpTo(n - 1)
       IN  shorter \cup {Append(w, c) : w \in shorter, c \in Alphabet}

ExamplePath ==
  <<"v", "a", "l", "/", "c", "o", "c", "o", "_", "v", "a", "l", "_",
    "0", "0", "0", "1", "3", "7", "5", "7", "6", "_", "9", "3",
    ".", "j", "p", "g">>

StoredPaths ==
  { pre \o <<"v">> \o sep \o text \o <<"_">> \o id \o <<"_">> \o num
      \o dot \o ext :
      pre \in StringsUpTo(MaxPrefix),
      sep \in {<<"/">>, <<>>},
      text \in {<<"c">>, <<"c", "_", "v">>, <<"c", "-", "v">>, <<>>},
      id \in {<<"0", "7">>, <<"x">>},
      num \in {<<"9">>, <<"x">>, <<>>},
      dot \in {<<".">>, <<>>},
      ext \in {<<"o", "g", "g">>, <<>>} }
    \cup {ExamplePath, <<"a", "b", "c", "/", "d", "e", "f", ".", "o", "g", "g">>}

DatasetIds ==
  { <<"F", "l", "i", "c", "k", "r", "3", "0", "k">>,
    <<"A", "D", "E", "2", "0", "k">>,
    <<"f", "l", "i", "c", "k", "r">>,
    <<"m", "s", "c", "o", "c", "o">> }

AnnotatorIds == {5, 93}

Records ==
  [dataset_id : DatasetIds, annotator_id : AnnotatorIds,
   voice_recording : StoredPaths]

InitUrl ==
  /\ dirExists = FALSE
  /\ present = {}
  /\ content = [f \in Files |-> <<>>]
  /\ InitLoader(1)
  /\ rec \in Records
  /\ url = NoUrl

NextUrl == ResolveUrl

SpecUrl == InitUrl /\ [][NextUrl]_vars

(***************************************************************************)
(* What the claims speak of.                                               *)
(***************************************************************************)
UnknownKeyError == "ValueError: unknown dataset_and_split"

ClosedFileError == "ValueError: I/O operation on closed file"

DecodeErrors == {"JSONDecodeError", "TypeError"}

IsRecordLine(line) == line.json /\ line.keys = Fields

\* the expected files of a key that are in the directory, in registry order
LocalFiles(key) == SelectSeq(ANNOTATION_FILES[key], LAMBDA f : f \in present)

RecordsOfFile(f) == [i \in 1..Len(content[f]) |-> <<f, i>>]

RECURSIVE RecordsOfFiles(_)
RecordsOfFiles(files) ==
  IF files = <<>> THEN <<>>
  ELSE RecordsOfFile(Head(files)) \o RecordsOfFiles(Tail(files))

\* the records of a local source, in file-then-line order
SourceRecords(key) == RecordsOfFiles(LocalFiles(key))

\* every line of the local source is a record
WellFormed(key) ==
  \A f \in Range(LocalFiles(key)) :
    \A i \in 1..Len(content[f]) : IsRecordLine(content[f][i])

HandlesOf(g) == {h \in 1..Len(handles) : handles[h].owner = g}

RECURSIVE SumPos(_)
SumPos(hs) ==
  IF hs = {} THEN 0
  ELSE LET h == CHOOSE x \in hs : TRUE
       IN  handles[h].pos + SumPos(hs \ {h})

\* the lines a generator has read so far
LinesRead(g) == SumPos(HandlesOf(g))

IndexOf(files, f) == CHOOSE i \in 1..Len(files) : files[i] = f

EventsOf(trace, kinds) == {i \in 1..Len(trace) : trace[i][1] \in kinds}

FilesOf(trace, kinds) == {trace[i][2] : i \in EventsOf(trace, kinds)}

Downloaded(trace) == FilesOf(trace, {"download"})

Attempted(trace) == FilesOf(trace, {"download", "download failed"})

(***************************************************************************)
(* C1.  max_num_annotations is respected: a fully consumed                 *)
(* load_annotations(key, N) over a well-formed local source of more than N *)
(* records has yielded exactly the first N records, in file-then-line      *)
(* order, and has read no line and opened no file after the N-th record.   *)
(***************************************************************************)
C1_MaxCountYieldsExactlyN ==
  \A g \in DOMAIN gen :
    LET G == gen[g]
    IN  ( /\ G.status = "done"
          /\ G.key \in KnownKeys
          /\ WellFormed(G.key)
          /\ G.max < Len(SourceRecords(G.key)) )
        => /\ G.emitted = SubSeq(SourceRecords(G.key), 1, G.max)
           /\ LinesRead(g) = G.max
           /\ \A h \in HandlesOf(g) :
                G.max > Len(RecordsOfFiles(SubSeq(LocalFiles(G.key), 1,
                          IndexOf(LocalFiles(G.key), handles[h].file) - 1)))

\* The same for N >= 1 only, which holds: the test of num_loaded against
\* max_num_annotations comes after the first yield, so N = 0 is never met.
PositiveMaxCountYieldsExactlyN ==
  \A g \in DOMAIN gen :
    LET G == gen[g]
    IN  ( /\ G.status = "done"
          /\ G.key \in KnownKeys
          /\ WellFormed(G.key)
          /\ G.max >= 1
          /\ G.max < Len(SourceRecords(G.key)) )
        => /\ G.emitted = SubSeq(SourceRecords(G.key), 1, G.max)
           /\ LinesRead(g) = G.max
           /\ \A h \in HandlesOf(g) :
                G.max > Len(RecordsOfFiles(SubSeq(LocalFiles(G.key), 1,
                          IndexOf(LocalFiles(G.key), handles[h].file) - 1)))

(***************************************************************************)
(* C2.  A call with a key that is not in the registry, download or load,   *)
(* ends with the unknown-dataset error having performed no I/O: no         *)
(* makedirs, no existence check, no open, no download.                     *)
(***************************************************************************)
C2_UnknownKeyBeforeAnyIO ==
  call.result = UnknownKeyError => io = <<>>

\* The half of it that holds: the first next() of a load with an unknown key
\* raises before any I/O (download_annotations has called os.makedirs).
UnknownKeyLoadBeforeAnyIO ==
  (call.op = "next" /\ call.result = UnknownKeyError) => io = <<>>

(***************************************************************************)
(* C3.  Whenever the caller holds the max_num_annotations-th record of a   *)
(* load (the generator is suspended at the yield of that record), no file  *)
(* object opened by that load is still open.                               *)
(***************************************************************************)
C3_ClosedWhenLimitReached ==
  \A g \in DOMAIN gen :
    (gen[g].status = "suspended" /\ Len(gen[g].emitted) = gen[g].max)
      => \A h \in HandlesOf(g) : handles[h].closed

\* What holds: a load that has returned has closed every file it opened.
ClosedWhenReturned ==
  \A g \in DOMAIN gen :
    gen[g].status = "done" => \A h \in HandlesOf(g) : handles[h].closed

(***************************************************************************)
(* C4.  A load over a directory holding any subset of the key's expected   *)
(* files (well-formed, and with no limit below the number of records)      *)
(* never raises, yields a prefix of the records of the present files in    *)
(* registry then line order and, fully consumed, has yielded all of them.  *)
(***************************************************************************)
C4_SubsetOfFiles ==
  \A g \in DOMAIN gen :
    LET G == gen[g]
        all == IF G.key \in KnownKeys THEN SourceRecords(G.key) ELSE <<>>
    IN  ( /\ G.status # "none"
          /\ G.key \in KnownKeys
          /\ WellFormed(G.key)
          /\ G.max >= Len(all) )
        => /\ G.status # "raised"
           /\ Len(G.emitted) <= Len(all)
           /\ G.emitted = SubSeq(all, 1, Len(G.emitted))
           /\ G.status = "done" => G.emitted = all

\* a shard is missing before a shard that is there, and the load is done
C4_Witness ==
  \E g \in DOMAIN gen :
    /\ gen[g].status = "done"
    /\ gen[g].key = "coco_train"
    /\ gen[g].max = DefaultMax
    /\ WellFormed("coco_train")
    /\ ANNOTATION_FILES["coco_train"][1] \notin present
    /\ ANNOTATION_FILES["coco_train"][2] \in present
    /\ Len(gen[g].emitted) = MaxLines

(***************************************************************************)
(* C5.  download_annotations is idempotent by presence check.  In every    *)
(* call: a call that succeeds leaves every expected file present; a call   *)
(* that follows a successful call with the same key issues no download;    *)
(* a file present when the call starts is not downloaded and keeps its     *)
(* content.                                                               *)
(***************************************************************************)
C5_IdempotentByPresence ==
  [][ call'.op = "download_annotations" =>
        /\ call'.result = "ok" =>
             Range(ANNOTATION_FILES[call'.key]) \subseteq present'
        /\ ( /\ call.op = "download_annotations"
             /\ call.result = "ok"
             /\ call'.key = call.key ) => Attempted(io') = {}
        /\ \A f \in present :
             /\ f \in present'
             /\ content'[f] = content[f]
             /\ f \notin Attempted(io') ]_vars

\* a second successful call after a first one that had files to download
C5_Witness ==
  /\ call.op = "download_annotations"
  /\ call.result = "ok"
  /\ call.prev.op = "download_annotations"
  /\ call.prev.result = "ok"
  /\ call.prev.key = call.key
  /\ call.prev.downloads = NumShards
  /\ Attempted(io) = {}

(***************************************************************************)
(* C8.  A failed download ends the call: the failure is the last I/O of    *)
(* the call and its error is the call's result, only the files up to the   *)
(* failing one were checked, no file is tried twice, the failing file is   *)
(* absent afterwards and every file present before or downloaded by the    *)
(* call is present with its content.  Any call downloads only files that   *)
(* were absent, and a call that succeeds has downloaded exactly those.     *)
(***************************************************************************)
C8_FailureAbortsBatch ==
  [][ (call'.op = "download_annotations" /\ call'.key \in KnownKeys) =>
        LET files == ANNOTATION_FILES[call'.key]
            n == Len(io')
        IN  /\ call'.result \in {"ok", "DownloadError"}
            /\ call'.result = "DownloadError" <=>
                 io'[n][1] = "download failed"
            /\ call'.result = "DownloadError" =>
                 LET k == IndexOf(files, io'[n][2])
                 IN  /\ EventsOf(io', {"download failed"}) = {n}
                     /\ FilesOf(io', {"exists"}) = {files[j] : j \in 1..k}
                     /\ files[k] \notin present'
            /\ \A i, j \in EventsOf(io', {"exists"}) :
                 io'[i][2] = io'[j][2] => i = j
            /\ \A i, j \in EventsOf(io', {"download", "download failed"}) :
                 io'[i][2] = io'[j][2] => i = j
            /\ present' = present \cup Downloaded(io')
            /\ \A f \in present : content'[f] = content[f]
            /\ Attempted(io') \subseteq Range(files) \ present
            /\ call'.result = "ok" =>
                 Downloaded(io') = Range(files) \ present ]_vars

\* a call that failed after it had downloaded a file, then a call with the
\* same key that succeeds and downloads the rest
C8_Witness ==
  /\ call.op = "download_annotations"
  /\ call.result = "ok"
  /\ call.prev.op = "download_annotations"
  /\ call.prev.result = "DownloadError"
  /\ call.prev.key = call.key
  /\ call.prev.downloads >= 1
  /\ Downloaded(io) # {}

(***************************************************************************)
(* C9.  A line that is not a record (malformed JSON, a missing or an extra *)
(* key) ends the load that reads it: the generator has raised the decode   *)
(* error, that line is the last one it read, what it has yielded is        *)
(* exactly the records of the lines and files before it, and the file      *)
(* object it was reading is still open.                                    *)
(***************************************************************************)
RecordsBefore(key, f, i) ==
  LET local == LocalFiles(key)
  IN  RecordsOfFiles(SubSeq(local, 1, IndexOf(local, f) - 1))
        \o [j \in 1..(i - 1) |-> <<f, j>>]

C9_DecodeErrorEndsLoad ==
  /\ \A h \in 1..Len(handles) :
       \A i \in 1..handles[h].pos :
         ~IsRecordLine(content[handles[h].file][i]) =>
           LET G == gen[handles[h].owner]
           IN  /\ G.status = "raised"
               /\ G.err \in DecodeErrors
               /\ G.err = "JSONDecodeError" <=>
                    ~content[handles[h].file][i].json
               /\ G.h = h
               /\ handles[h].pos = i
               /\ ~handles[h].closed
               /\ G.emitted = RecordsBefore(G.key, handles[h].file, i)
  /\ \A g \in DOMAIN gen :
       (gen[g].status = "raised" /\ gen[g].err \in DecodeErrors) =>
         /\ gen[g].h \in HandlesOf(g)
         /\ handles[gen[g].h].pos >= 1
         /\ ~IsRecordLine(content[handles[gen[g].h].file][handles[gen[g].h].pos])
  /\ (call.op = "next" /\ call.result \in DecodeErrors) =>
       \E g \in DOMAIN gen : gen[g].status = "raised" /\ gen[g].err = call.result

\* a line with an extra key in the second present file, after a record
C9_Witness ==
  \E g \in DOMAIN gen :
    /\ gen[g].status = "raised"
    /\ gen[g].err = "TypeError"
    /\ call.result = "TypeError"
    /\ Cardinality(HandlesOf(g)) = 2
    /\ Len(gen[g].emitted) >= 1
    /\ ~handles[gen[g].h].closed
    /\ "comment" \in content[handles[gen[g].h].file][handles[gen[g].h].pos].keys

(***************************************************************************)
(* C10.  Two load_annotations generators of one DataLoader, consumed in    *)
(* any interleaving, are independent: a generator that has finished has    *)
(* yielded the records, and ended the way, it does when consumed alone;    *)
(* no read fails on a closed file; a file object is closed only by the     *)
(* generator that opened it.                                               *)
(***************************************************************************)
RECURSIVE consume(_, _)
\* next() after next() on a generator until it returns or raises
consume(m, self) ==
  LET r == run(m, self)
  IN  IF r.pc = "yield" THEN consume([r EXCEPT !.pc = "resume"], self) ELSE r

\* load_annotations(key, max) fully consumed on a DataLoader of its own
Alone(key, max) ==
  consume([pc |-> "start",
           g |-> [NoGen EXCEPT !.status = "created", !.key = key,
                               !.max = max],
           handles |-> <<>>, current |-> 0, io |-> <<>>], 1).g

C10_GeneratorsIndependent ==
  /\ \A g \in DOMAIN gen :
       gen[g].status \in {"done", "raised"} =>
         /\ gen[g].emitted = Alone(gen[g].key, gen[g].max).emitted
         /\ gen[g].err = Alone(gen[g].key, gen[g].max).err
  /\ \A g \in DOMAIN gen : gen[g].err # ClosedFileError
  /\ \A h \in 1..Len(handles) :
       handles[h].closed => handles[h].closedBy = handles[h].owner

(***************************************************************************)
(* Forms of a stored voice_recording, stated on the string itself.         *)
(***************************************************************************)
\* s[i..j] is not empty and made of the characters of the set chars
AllIn(s, i, j, chars) == i <= j /\ \A k \in i..j : s[k] \in chars

DigitChars == Range(Digits)

WordChars == Letters \cup DigitChars \cup {"_"}

\* The ways to read s as <split>/<text>_<digits>_<tail>.<ext>, each as
\* <<p, u1, u2, q>>: the places of the slash, the two underscores and the
\* dot.  split, text and tail are not empty and consist of characters
\* of the sets SplitChar, TextChar and TailChar.
Readings(s, SplitChar, TextChar, TailChar) ==
  UNION {
    UNION {
      UNION {
        { <<p, u1, u2, q>> :
            q \in {q \in (u2 + 2)..Len(s) :
                     s[q] = "." /\ AllIn(s, u2 + 1, q - 1, TailChar)} }
        : u2 \in {u2 \in (u1 + 2)..Len(s) :
                    s[u2] = "_" /\ AllIn(s, u1 + 1, u2 - 1, DigitChars)} }
      : u1 \in {u1 \in (p + 2)..Len(s) :
                  s[u1] = "_" /\ AllIn(s, p + 1, u1 - 1, TextChar)} }
    : p \in {p \in 2..Len(s) : s[p] = "/" /\ AllIn(s, 1, p - 1, SplitChar)} }

\* <split_id>/<anything>_<numeric_image_id>_<anything>.<ext>
LooseReadings(s) == Readings(s, Range(s), Range(s), Range(s))

\* <split_id>/<text>_<numeric_image_id>_<digits>.<ext>, split_id and text
\* made of word characters
StrictReadings(s) == Readings(s, WordChars, WordChars, DigitChars)

\* s holds <word characters>/<word characters>_<digits>_<digits>. somewhere
HoldsPattern(s) ==
  \E a \in 1..Len(s) :
    Readings(SubSeq(s, a, Len(s)), WordChars, WordChars, DigitChars) # {}

Rewritten(r) == Contains(r.dataset_id, Flic) \/ Contains(r.dataset_id, ADE)

\* <base>/<split_id>/<split_id>_<image id on 16 digits>_<annotator_id>.ogg
\* for the reading rd of the stored value of r
RewrittenUrl(r, rd) ==
  LET s == r.voice_recording
      split_id == SubSeq(s, 1, rd[1] - 1)
      image_id == SubSeq(s, rd[2] + 1, rd[3] - 1)
      zeros == [i \in 1..(16 - Len(image_id)) |-> "0"]
  IN  RECORDINGS_ROOT_URL \o <<"/">> \o split_id \o <<"/">> \o split_id
        \o <<"_">> \o zeros \o image_id \o <<"_">>
        \o int_to_str(r.annotator_id) \o <<".", "o", "g", "g">>

(***************************************************************************)
(* C6 as claimed.  The URL is the base URL, '/', and the stored value      *)
(* unchanged for a dataset_id without 'Flic' and 'ADE'; otherwise, for a   *)
(* stored value <split_id>/<anything>_<digits>_<anything>.<ext>, it is     *)
(* <split_id>/<split_id>_<digits padded to 16>_<annotator_id>.ogg.         *)
(***************************************************************************)
C6_UrlOfLooseForm ==
  url.status # "none" =>
    /\ ~Rewritten(rec) =>
         url = [status |-> "ok",
                value |-> RECORDINGS_ROOT_URL \o <<"/">> \o rec.voice_recording]
    /\ (Rewritten(rec) /\ LooseReadings(rec.voice_recording) # {}) =>
         /\ url.status = "ok"
         /\ \E rd \in LooseReadings(rec.voice_recording) :
              url.value = RewrittenUrl(rec, rd)

(***************************************************************************)
(* C6 amended.  The same for a stored value of the form                    *)
(* <split_id>/<text>_<digits>_<digits>.<ext> whose split_id and text are   *)
(* word characters: the first number is the image id, the second is        *)
(* replaced by the annotator_id.                                           *)
(***************************************************************************)
C6_UrlOfStrictForm ==
  url.status # "none" =>
    /\ ~Rewritten(rec) =>
         url = [status |-> "ok",
                value |-> RECORDINGS_ROOT_URL \o <<"/">> \o rec.voice_recording]
    /\ Rewritten(rec) =>
         \A rd \in StrictReadings(rec.voice_recording) :
           url = [status |-> "ok", value |-> RewrittenUrl(rec, rd)]

\* the example: val/coco_val_000137576_93.jpg of annotator 93
C6_Witness ==
  /\ Rewritten(rec)
  /\ rec.voice_recording = ExamplePath
  /\ rec.annotator_id = 93
  /\ url.status = "ok"
  /\ url.value = RECORDINGS_ROOT_URL \o
       <<"/", "v", "a", "l", "/", "v", "a", "l", "_",
         "0", "0", "0", "0", "0", "0", "0", "0", "0", "0",
         "1", "3", "7", "5", "7", "6", "_", "9", "3", ".", "o", "g", "g">>

(***************************************************************************)
(* C7 as claimed.  Resolution fails exactly for a record of a              *)
(* rewritten-path family whose stored value is not of the form             *)
(* <split>/<text>_<digits>_<text>.<ext>.                                   *)
(***************************************************************************)
C7_ErrorIffNotLooseForm ==
  url.status # "none" =>
    (url.status = "error" <=>
       (Rewritten(rec) /\ LooseReadings(rec.voice_recording) = {}))

(***************************************************************************)
(* C7 amended.  Resolution fails exactly for a record of a rewritten-path  *)
(* family whose stored value holds nowhere                                 *)
(* <word characters>/<word characters>_<digits>_<digits> followed by a     *)
(* dot.                                                                    *)
(***************************************************************************)
C7_ErrorIffNoPattern ==
  url.status # "none" =>
    (url.status = "error" <=>
       (Rewritten(rec) /\ ~HoldsPattern(rec.voice_recording)))

\* a rewritten-path record whose stored value has no second number
C7_Witness ==
  /\ url.status = "error"
  /\ Rewritten(rec)
  /\ rec.voice_recording = <<"v", "/", "c", "_", "0", "7", "_", ".", "o", "g", "g">>

====
